---------------------------- MODULE Spec2Model ----------------------------
(***************************************************************************)
(* Krishimitra front-end (src/script.js): the query/response lifecycle,    *)
(* the bounded history cache persisted under 'kr_history', the mocked      *)
(* response fetcher, the typewriter reveal and the browser callbacks       *)
(* (geolocation, speech recognition, image selection).                     *)
(*                                                                         *)
(* Strings are sequences of one-character strings, so that trim,           *)
(* toLowerCase, includes, slice and escapeHtml are computed character by   *)
(* character.                                                              *)
(***************************************************************************)
EXTENDS Integers, Sequences, FiniteSets, TLC

VARIABLES
    scriptState,      \* "running" | "aborted": whether the top-level script attached its listeners
    storage,          \* localStorage 'kr_history': [kind, items]
    bootStorage,      \* the value localStorage.getItem('kr_history') returned at line 25
    historyKind,      \* JS type of context.history: "array" | "object" | "null" | "undefined"
    history,          \* context.history when it is an array (else <<>>)
    location,         \* context.location
    lastImage,        \* context.lastImage
    geo,              \* getCurrentPosition request: "none" | "pending" | "done"
    queryText,        \* queryText.value
    langSelect,       \* langSelect.value
    sendBtn,          \* [disabled, textContent]
    loaderHidden,     \* loader.classList.contains('hidden')
    responseAreaHidden,
    responseActionsHidden,
    responseMeta,     \* responseMeta.textContent
    responseText,     \* responseText.innerHTML: [text, cursor]
    historyList,      \* historyList.innerHTML: [kind, items]
    pending,          \* handleQuery invocations suspended at the await of line 133
    timers,           \* live setInterval timers of typewriterEffect: [text, i]
    alertOpen,        \* message of the modal alert() being shown, or Null
    micActive,        \* recognition session running (micBtn has class 'active')
    mailto,           \* mailto body last handed to window.location.href: <<>> or <<[q, answer]>>
    now               \* Date.now(), counted in elapsed fetch delays

vars == <<scriptState, storage, bootStorage, historyKind, history, location, lastImage,
          geo, queryText, langSelect, sendBtn, loaderHidden, responseAreaHidden,
          responseActionsHidden, responseMeta, responseText, historyList, pending,
          timers, alertOpen, micActive, mailto, now>>

-----------------------------------------------------------------------------
(* Bounds of the model *)

\* accepted submissions per session in Spec and SpecFair
MaxSubmits == 2
\* accepted submissions per session in SpecSession and SpecRoute
MaxSessionSubmits == 1
\* accepted submissions per session in SpecFifo
MaxFifoSubmits == 12
\* reveal timers alive when a submission is accepted
MaxTimers == 2
\* longest query text a voice transcript may produce
MaxQueryLen == 6

(* Program constants *)

\* script.js:151  if (context.history.length > 10) context.history.shift();
HistoryCap == 10

Null == "null"
Undefined == "undefined"

-----------------------------------------------------------------------------
(* String helpers: JavaScript String methods on character sequences *)

UpperAlpha == <<"A","B","C","D","E","F","G","H","I","J","K","L","M",
                "N","O","P","Q","R","S","T","U","V","W","X","Y","Z">>
LowerAlpha == <<"a","b","c","d","e","f","g","h","i","j","k","l","m",
                "n","o","p","q","r","s","t","u","v","w","x","y","z">>

WhiteSpace == {" ", "\t", "\n"}

LowerChar(c) ==
    IF \E k \in 1..Len(UpperAlpha) : UpperAlpha[k] = c
    THEN LowerAlpha[CHOOSE k \in 1..Len(UpperAlpha) : UpperAlpha[k] = c]
    ELSE c

\* String.prototype.toLowerCase
toLowerCase(s) == [k \in 1..Len(s) |-> LowerChar(s[k])]

RECURSIVE trimStart(_)
trimStart(s) ==
    IF s # <<>> /\ Head(s) \in WhiteSpace THEN trimStart(Tail(s)) ELSE s

RECURSIVE trimEnd(_)
trimEnd(s) ==
    IF s # <<>> /\ s[Len(s)] \in WhiteSpace THEN trimEnd(SubSeq(s, 1, Len(s) - 1)) ELSE s

\* String.prototype.trim
trim(s) == trimEnd(trimStart(s))

\* String.prototype.includes
includes(s, k) ==
    \E p \in 1..(Len(s) - Len(k) + 1) : SubSeq(s, p, p + Len(k) - 1) = k

\* String.prototype.slice(0, n)
slice0Short(s, n) == SubSeq(s, 1, IF n - 1 < Len(s) THEN n - 1 ELSE Len(s))

slice0(s, n) == SubSeq(s, 1, IF n < Len(s) THEN n ELSE Len(s))

-----------------------------------------------------------------------------
(* Literals of script.js.  The keywords are spelled out; the long answer   *)
(* sentences are abbreviated to two characters each, the location          *)
(* disclaimer to one, so that a reveal takes a few timer ticks.            *)

KwPesticide == <<"p","e","s","t","i","c","i","d","e">>
KwLeafSpot  == <<"l","e","a","f"," ","s","p","o","t">>
KwLeaf      == <<"l","e","a","f">>
KwPrice     == <<"p","r","i","c","e">>
KwMarket    == <<"m","a","r","k","e","t">>
KwWeather   == <<"w","e","a","t","h","e","r">>
KwRain      == <<"r","a","i","n">>

NotSureText  == <<"N","s">>   \* "I'm not sure how to answer that. ..."
PromptText   == <<"P","l">>   \* "Please type a question or upload a photo of your crop."
LeafSpotText == <<"L","s">>   \* "Probable issue: Leaf spot. ..."
MarketText   == <<"M","k">>   \* "Market rates change daily. ... local mandi ..."
WeatherText  == <<"W","x">>   \* "Weather Alert: ... postpone spraying ..."
ApologyText  == <<"S","o">>   \* "Sorry, I couldn't connect to the server. ..."
LocationPrefix == <<"@">>     \* "(Based on your approximate location) "

EmptyQueryAlert == "Please enter a question or upload an image."

ImageQueryText == <<"I","q">>     \* 'Image Query'
AskNowLabel == "Ask Now"
AnalyzingLabel == "Analyzing..."
ErrorLabel == "An error occurred"

-----------------------------------------------------------------------------
(* Values *)

\* JavaScript truthiness of a value that is null, undefined or an object
Truthy(v) == v \notin {Null, Undefined}

\* the <option> values of langSelect; the first is the default selection
DefaultLang == "en-IN"
Langs == {DefaultLang, "ml-IN"}

\* a File chosen in imageInput
Files == {"leaf.jpg"}

\* the { lat, lon } object built from a delivered position (script.js:287)
Position == "{lat:10.0,lon:76.3}"

-----------------------------------------------------------------------------
(* The reference fetcher *)

\* mockAnswer without lines 97-99: the disclaimer is never added
mockAnswerNoDisclaimer(query, lang, ctx) ==
    LET q == toLowerCase(query)
    IN  IF q = <<>> /\ ~Truthy(ctx.lastImage) THEN PromptText
        ELSE IF includes(q, KwPesticide) \/ includes(q, KwLeafSpot)
                \/ (Truthy(ctx.lastImage) /\ includes(q, KwLeaf)) THEN LeafSpotText
        ELSE IF includes(q, KwPrice) \/ includes(q, KwMarket) THEN MarketText
        ELSE IF includes(q, KwWeather) \/ includes(q, KwRain) THEN WeatherText
        ELSE NotSureText

\* mockAnswer with the weather/rain branch tested before the pesticide branch
mockAnswerWeatherFirst(query, lang, ctx) ==
    LET q == toLowerCase(query)
        text ==
            IF q = <<>> /\ ~Truthy(ctx.lastImage) THEN PromptText
            ELSE IF includes(q, KwWeather) \/ includes(q, KwRain) THEN WeatherText
            ELSE IF includes(q, KwPesticide) \/ includes(q, KwLeafSpot)
                    \/ (Truthy(ctx.lastImage) /\ includes(q, KwLeaf)) THEN LeafSpotText
            ELSE IF includes(q, KwPrice) \/ includes(q, KwMarket) THEN MarketText
            ELSE NotSureText
    IN  IF Truthy(ctx.location) THEN LocationPrefix \o text ELSE text

\* script.js:83-108, the answer text of the mocked response
mockAnswer(query, lang, ctx) ==
    LET q == toLowerCase(query)
        text ==
            IF q = <<>> /\ ~Truthy(ctx.lastImage) THEN PromptText
            ELSE IF includes(q, KwPesticide) \/ includes(q, KwLeafSpot)
                    \/ (Truthy(ctx.lastImage) /\ includes(q, KwLeaf)) THEN LeafSpotText
            ELSE IF includes(q, KwPrice) \/ includes(q, KwMarket) THEN MarketText
            ELSE IF includes(q, KwWeather) \/ includes(q, KwRain) THEN WeatherText
            ELSE NotSureText
    IN  IF Truthy(ctx.location) THEN LocationPrefix \o text ELSE text

\* script.js:83-108: the value the returned promise resolves with after the delay
mockAIResponse(query, lang, ctx) ==
    [answer |-> mockAnswer(query, lang, ctx), confidence |-> 85, error |-> FALSE]

\* script.js:39-78: the try body returns the mocked response; `throws` is the
\* try body raising (the backend call of lines 54-64 failing), which the catch
\* turns into the apology response
getAIResponse(query, lang, imageFile, ctx, throws) ==
    IF throws
    THEN [answer |-> ApologyText, confidence |-> 0, error |-> TRUE]
    ELSE mockAIResponse(query, lang, ctx)

-----------------------------------------------------------------------------
(* HTML escaping and the history view *)

EntityNoQuotes(c) ==
    CASE c = "&"  -> <<"&","a","m","p",";">>
      [] c = "<"  -> <<"&","l","t",";">>
      [] c = ">"  -> <<"&","g","t",";">>
      [] OTHER    -> <<c>>

\* script.js:209, the replacement table
Entity(c) ==
    CASE c = "&"  -> <<"&","a","m","p",";">>
      [] c = "<"  -> <<"&","l","t",";">>
      [] c = ">"  -> <<"&","g","t",";">>
      [] c = "\"" -> <<"&","q","u","o","t",";">>
      [] c = "'"  -> <<"&","#","3","9",";">>
      [] OTHER    -> <<c>>

RECURSIVE escapeHtml(_)
\* script.js:208-210
escapeHtml(s) ==
    IF s = <<>> THEN <<>> ELSE Entity(Head(s)) \o escapeHtml(Tail(s))

DecimalDigits == <<"0","1","2","3","4","5","6","7","8","9">>

RECURSIVE Decimal(_)
Decimal(n) ==
    IF n < Len(DecimalDigits)
    THEN <<DecimalDigits[n + 1]>>
    ELSE Decimal(n \div Len(DecimalDigits)) \o <<DecimalDigits[(n % Len(DecimalDigits)) + 1]>>

\* script.js:170 and 175, new Date(item.ts).toLocaleString(): the time as a text
\* of digits and punctuation, written into the markup as it is
toLocaleString(ts) == IF ts < 0 THEN <<"-">> \o Decimal(0 - ts) ELSE Decimal(ts)

\* script.js:170-176, the markup of one history item
HistoryItemHtml(item) ==
    [q  |-> IF escapeHtml(item.q) = <<>> THEN ImageQueryText ELSE escapeHtml(item.q),
     ts |-> toLocaleString(item.ts),
     a  |-> escapeHtml(item.answer)]

Reverse(s) == [k \in 1..Len(s) |-> s[Len(s) + 1 - k]]

\* script.js:162-179: the resulting historyList markup, and whether the call threw
renderHistory(kind, h) ==
    CASE kind = "null"   -> [threw |-> TRUE,  html |-> [kind |-> "list", items |-> <<>>]]
      [] kind = "object" -> [threw |-> FALSE, html |-> [kind |-> "placeholder", items |-> <<>>]]
      [] OTHER ->
           IF Len(h) = 0
           THEN [threw |-> FALSE, html |-> [kind |-> "placeholder", items |-> <<>>]]
           ELSE [threw |-> FALSE,
                 html |-> [kind |-> "list",
                           items |-> [k \in 1..Len(h) |-> HistoryItemHtml(Reverse(h)[k])]]]

-----------------------------------------------------------------------------
(* Persistence: the 'kr_history' value as text *)

\* JSON.stringify of an array of records: the fields of each, in insertion order
JSONstringify(h) ==
    [kind |-> "array",
     items |-> [k \in 1..Len(h) |-> <<h[k].q, h[k].lang, h[k].ts, h[k].answer>>]]

\* JSON.parse: throws on text that is not JSON; otherwise the value and its type
JSONparse(raw) ==
    [threw |-> raw.kind = "invalid",
     kind  |-> IF raw.kind = "invalid" THEN Undefined ELSE raw.kind,
     value |-> IF raw.kind = "array"
               THEN [k \in 1..Len(raw.items) |->
                        [q |-> raw.items[k][1], lang |-> raw.items[k][2],
                         ts |-> raw.items[k][3], answer |-> raw.items[k][4]]]
               ELSE <<>>]

\* localStorage.getItem('kr_history') || '[]'
StoredOrEmpty(raw) ==
    IF raw.kind = "absent" THEN [kind |-> "array", items |-> <<>>] ELSE raw

\* a record written by an earlier session, n-th oldest of `len`
StoredRecord(n, len) == <<KwRain, DefaultLang, n - len, WeatherText>>

StoredArray(len) ==
    [kind |-> "array", items |-> [n \in 1..len |-> StoredRecord(n, len)]]

\* lengths of the persisted arrays the session may start from
StoredLens == {HistoryCap - 1, HistoryCap, HistoryCap + 1}

\* the values 'kr_history' may hold when the page loads
StoredValues ==
    {[kind |-> k, items |-> <<>>] : k \in {"absent", "invalid", "null", "object"}}
    \cup {StoredArray(len) : len \in StoredLens}

-----------------------------------------------------------------------------
(* Startup: the top-level statements of script.js, run once at page load *)

NoMeta == [label |-> "", confidence |-> 0]
NoText == [text |-> <<>>, cursor |-> FALSE]
\* the markup of historyList in the page before the script touches it
StaticHtml == [kind |-> "static", items |-> <<>>]

\* script.js:22-26 then 232-290 for a page that loads with `raw` under 'kr_history'
Boot(raw) ==
    LET parsed == JSONparse(StoredOrEmpty(raw))
        shown  == renderHistory(parsed.kind, parsed.value)
    IN  /\ storage = raw
        /\ bootStorage = raw
        /\ scriptState = IF parsed.threw THEN "aborted" ELSE "running"
        /\ historyKind = parsed.kind
        /\ history = parsed.value
        /\ historyList = IF parsed.threw THEN StaticHtml ELSE shown.html
        /\ geo = IF parsed.threw \/ shown.threw THEN "none" ELSE "pending"
        /\ location = Null
        /\ lastImage = Null

\* the page's controls as the markup leaves them
InitControls ==
    /\ queryText = <<>>
    /\ langSelect = DefaultLang
    /\ sendBtn = [disabled |-> FALSE, textContent |-> AskNowLabel]
    /\ loaderHidden = TRUE
    /\ responseAreaHidden = TRUE
    /\ responseActionsHidden = TRUE
    /\ responseMeta = NoMeta
    /\ responseText = NoText
    /\ pending = <<>>
    /\ timers = <<>>
    /\ alertOpen = Null
    /\ micActive = FALSE
    /\ mailto = <<>>
    /\ now = 0

Init == InitControls /\ \E raw \in StoredValues : Boot(raw)

\* an event handler can run: the script attached it and no modal alert blocks the page
CanRun == scriptState = "running" /\ alertOpen = Null

-----------------------------------------------------------------------------
(* handleQuery, script.js:113-155 *)

\* line 114 without .trim()
SubmittedTextUntrimmed(value) == value

\* script.js:114
SubmittedText(value) == trim(value)

\* script.js:118
Rejected(text, imageFile) == text = <<>> /\ ~Truthy(imageFile)

\* script.js:133, the ctx argument { location: context.location }; any other
\* property of it reads as undefined
FetchCtx(loc) == [location |-> loc, lastImage |-> Undefined]

\* lines 124-125 without disabling the button
LoadingSendBtnEnabled == [disabled |-> FALSE, textContent |-> AnalyzingLabel]

\* script.js:124-125
LoadingSendBtn == [disabled |-> TRUE, textContent |-> AnalyzingLabel]

\* lines 137-138 restoring the label only
ReadySendBtnStillDisabled == [disabled |-> TRUE, textContent |-> AskNowLabel]

\* script.js:137-138
ReadySendBtn == [disabled |-> FALSE, textContent |-> AskNowLabel]

\* line 151 comparing with >= 12 instead of > 10
EvictOffByOne(h) == IF Len(h) > HistoryCap + 1 THEN Tail(h) ELSE h

\* line 151 with pop() instead of shift(): the newest record is dropped
EvictNewest(h) == IF Len(h) > HistoryCap THEN SubSeq(h, 1, Len(h) - 1) ELSE h

\* script.js:151
Evict(h) == IF Len(h) > HistoryCap THEN Tail(h) ELSE h

\* script.js:150-151
Record(h, rec) == Evict(Append(h, rec))

\* script.js:113-133: from the call to the await.  maxSubmits bounds the
\* submissions a session accepts, MaxTimers the reveals still running then.
handleQuery(maxSubmits) ==
    LET text      == SubmittedText(queryText)
        lang      == langSelect
        imageFile == lastImage
    IN  IF Rejected(text, imageFile)
        THEN /\ alertOpen' = EmptyQueryAlert
             /\ UNCHANGED <<scriptState, storage, bootStorage, historyKind, history,
                            location, lastImage, geo, queryText, langSelect, sendBtn,
                            loaderHidden, responseAreaHidden, responseActionsHidden,
                            responseMeta, responseText, historyList, pending, timers,
                            micActive, mailto, now>>
        ELSE /\ now + Len(pending) < maxSubmits
             /\ Len(timers) < MaxTimers
             /\ sendBtn' = LoadingSendBtn
             /\ responseAreaHidden' = FALSE
             /\ responseText' = NoText
             /\ loaderHidden' = FALSE
             /\ responseActionsHidden' = TRUE
             /\ responseMeta' = [label |-> "Analyzing your query...", confidence |-> 0]
             /\ pending' = Append(pending,
                                  [text |-> text, lang |-> lang, imageFile |-> imageFile,
                                   ctx |-> FetchCtx(location)])
             /\ UNCHANGED <<scriptState, storage, bootStorage, historyKind, history,
                            location, lastImage, geo, queryText, langSelect,
                            historyList, timers, alertOpen, micActive, mailto, now>>

\* a click on a button reaches its listeners only when the button is not disabled
Dispatches(btn) == ~btn.disabled

\* script.js:232, the click listener of sendBtn
SendBtnClick(maxSubmits) == CanRun /\ Dispatches(sendBtn) /\ handleQuery(maxSubmits)

\* script.js:233-238, Ctrl/Meta+Enter in the query box: sendBtn.click()
QueryKeydown(maxSubmits) == CanRun /\ Dispatches(sendBtn) /\ handleQuery(maxSubmits)

RemoveAt(s, k) == SubSeq(s, 1, k - 1) \o SubSeq(s, k + 1, Len(s))

\* script.js:185-200, the synchronous part: the cursor alone, and a new timer
typewriterEffect(text) ==
    /\ responseText' = [text |-> <<>>, cursor |-> TRUE]
    /\ timers' = Append(timers, [text |-> text, i |-> 0])

\* line 152 run before the push of line 150
PersistedBeforeAppend(h) == JSONstringify(SubSeq(h, 1, Len(h) - 1))

\* script.js:152, the value written under 'kr_history': the whole history, as
\* it is after the push and the shift
Persisted(h) == JSONstringify(h)

\* line 149 reading the query box and the language selector when the fetch resolves
HistoryRecordLive(c, ts, answer) ==
    [q |-> SubmittedText(queryText), lang |-> langSelect, ts |-> ts, answer |-> answer]

\* script.js:149, rec: text and lang are the constants of lines 114-115, held
\* by the suspended call
HistoryRecord(c, ts, answer) ==
    [q |-> c.text, lang |-> c.lang, ts |-> ts, answer |-> answer]

\* script.js:135-154: the continuation of the k-th suspended handleQuery, run
\* when its fetch resolves
handleQueryResume(k, throws) ==
    LET c   == pending[k]
        res == getAIResponse(c.text, c.lang, c.imageFile, c.ctx, throws)
        rec == HistoryRecord(c, now + 1, res.answer)
    IN  /\ CanRun
        /\ k \in 1..Len(pending)
        /\ pending' = RemoveAt(pending, k)
        /\ now' = now + 1
        /\ loaderHidden' = TRUE
        /\ sendBtn' = ReadySendBtn
        /\ typewriterEffect(res.answer)
        /\ IF res.error
           THEN /\ responseMeta' = [label |-> ErrorLabel, confidence |-> 0]
                /\ UNCHANGED <<responseActionsHidden, history, storage, historyList>>
           ELSE /\ responseMeta' = [label |-> "Answer (Confidence: %)",
                                    confidence |-> res.confidence]
                /\ responseActionsHidden' = FALSE
                /\ IF historyKind = "array"
                   THEN /\ history' = Record(history, rec)
                        /\ storage' = Persisted(history')
                        /\ historyList' = renderHistory(historyKind, history').html
                   ELSE \* context.history.push is not a function: TypeError
                        UNCHANGED <<history, storage, historyList>>
        /\ UNCHANGED <<scriptState, bootStorage, historyKind, location, lastImage, geo,
                       queryText, langSelect, responseAreaHidden, alertOpen, micActive,
                       mailto>>

\* script.js:191-199, one firing of the k-th interval timer
TypewriterTick(k) ==
    /\ CanRun
    /\ k \in 1..Len(timers)
    /\ LET t == timers[k]
       IN  IF t.i < Len(t.text)
           THEN /\ responseText' = [text |-> slice0(t.text, t.i + 1), cursor |-> TRUE]
                /\ timers' = [timers EXCEPT ![k].i = t.i + 1]
           ELSE /\ timers' = RemoveAt(timers, k)
                /\ responseText' = [text |-> t.text, cursor |-> FALSE]
    /\ UNCHANGED <<scriptState, storage, bootStorage, historyKind, history, location,
                   lastImage, geo, queryText, langSelect, sendBtn, loaderHidden,
                   responseAreaHidden, responseActionsHidden, responseMeta, historyList,
                   pending, alertOpen, micActive, mailto, now>>

-----------------------------------------------------------------------------
(* The other listeners and callbacks *)

\* the user edits the query box
TypeQuery(t) ==
    /\ CanRun
    /\ queryText' = t
    /\ UNCHANGED <<scriptState, storage, bootStorage, historyKind, history, location,
                   lastImage, geo, langSelect, sendBtn, loaderHidden, responseAreaHidden,
                   responseActionsHidden, responseMeta, responseText, historyList,
                   pending, timers, alertOpen, micActive, mailto, now>>

\* the user picks a language
SelectLang(l) ==
    /\ CanRun
    /\ langSelect' = l
    /\ UNCHANGED <<scriptState, storage, bootStorage, historyKind, history, location,
                   lastImage, geo, queryText, sendBtn, loaderHidden, responseAreaHidden,
                   responseActionsHidden, responseMeta, responseText, historyList,
                   pending, timers, alertOpen, micActive, mailto, now>>

\* script.js:215-229; file is e.target.files[0], undefined when the dialog was cancelled
handleImageUpload(file) ==
    /\ CanRun
    /\ lastImage' = IF ~Truthy(file) THEN lastImage ELSE file
    /\ UNCHANGED <<scriptState, storage, bootStorage, historyKind, history, location,
                   geo, queryText, langSelect, sendBtn, loaderHidden, responseAreaHidden,
                   responseActionsHidden, responseMeta, responseText, historyList,
                   pending, timers, alertOpen, micActive, mailto, now>>

\* script.js:287, the success callback of getCurrentPosition
GeoSuccess ==
    /\ CanRun
    /\ geo = "pending"
    /\ geo' = "done"
    /\ location' = Position
    /\ UNCHANGED <<scriptState, storage, bootStorage, historyKind, history, lastImage,
                   queryText, langSelect, sendBtn, loaderHidden, responseAreaHidden,
                   responseActionsHidden, responseMeta, responseText, historyList,
                   pending, timers, alertOpen, micActive, mailto, now>>

\* script.js:288, the error callback of getCurrentPosition (denied, or the 5 s timeout)
GeoError ==
    /\ CanRun
    /\ geo = "pending"
    /\ geo' = "done"
    /\ UNCHANGED <<scriptState, storage, bootStorage, historyKind, history, location,
                   lastImage, queryText, langSelect, sendBtn, loaderHidden,
                   responseAreaHidden, responseActionsHidden, responseMeta, responseText,
                   historyList, pending, timers, alertOpen, micActive, mailto, now>>

\* script.js:274-277 and 266: recognition.start() and its onstart
MicClick ==
    /\ CanRun
    /\ micActive' = TRUE
    /\ UNCHANGED <<scriptState, storage, bootStorage, historyKind, history, location,
                   lastImage, geo, queryText, langSelect, sendBtn, loaderHidden,
                   responseAreaHidden, responseActionsHidden, responseMeta, responseText,
                   historyList, pending, timers, alertOpen, mailto, now>>

\* script.js:271
WithTranscript(value, speech) ==
    IF value # <<>> THEN value \o <<" ">> \o speech ELSE speech

\* script.js:269-272, recognition.onresult
RecognitionResult(speech) ==
    /\ CanRun
    /\ micActive
    /\ Len(WithTranscript(queryText, speech)) <= MaxQueryLen
    /\ queryText' = WithTranscript(queryText, speech)
    /\ UNCHANGED <<scriptState, storage, bootStorage, historyKind, history, location,
                   lastImage, geo, langSelect, sendBtn, loaderHidden, responseAreaHidden,
                   responseActionsHidden, responseMeta, responseText, historyList,
                   pending, timers, alertOpen, micActive, mailto, now>>

\* script.js:267, recognition.onend
RecognitionEnd ==
    /\ CanRun
    /\ micActive
    /\ micActive' = FALSE
    /\ UNCHANGED <<scriptState, storage, bootStorage, historyKind, history, location,
                   lastImage, geo, queryText, langSelect, sendBtn, loaderHidden,
                   responseAreaHidden, responseActionsHidden, responseMeta, responseText,
                   historyList, pending, timers, alertOpen, mailto, now>>

\* script.js:250-257: speaks responseText.textContent; the utterance is handed to
\* the browser and no state of the page changes
PlayAudio ==
    /\ CanRun
    /\ responseText.text # <<>>
    /\ UNCHANGED vars

NoneText == <<"(","n","o","n","e",")">>

\* script.js:243-247, the two interpolated fields of the message body
EscalateBody ==
    IF historyKind = "array" /\ Len(history) > 0
    THEN [q |-> history[Len(history)].q, answer |-> history[Len(history)].answer]
    ELSE [q |-> queryText, answer |-> NoneText]

\* script.js:242-249; reading context.history.length throws when history is null
Escalate ==
    /\ CanRun
    /\ mailto' = IF historyKind = "null" THEN mailto ELSE <<EscalateBody>>
    /\ UNCHANGED <<scriptState, storage, bootStorage, historyKind, history, location,
                   lastImage, geo, queryText, langSelect, sendBtn, loaderHidden,
                   responseAreaHidden, responseActionsHidden, responseMeta, responseText,
                   historyList, pending, timers, alertOpen, micActive, now>>

\* script.js:240-241, saveFeedback and reportBtn
FeedbackAlert(msg) ==
    /\ CanRun
    /\ alertOpen' = msg
    /\ UNCHANGED <<scriptState, storage, bootStorage, historyKind, history, location,
                   lastImage, geo, queryText, langSelect, sendBtn, loaderHidden,
                   responseAreaHidden, responseActionsHidden, responseMeta, responseText,
                   historyList, pending, timers, micActive, mailto, now>>

FeedbackMessages ==
    {"Thanks! Your feedback helps us improve.",
     "Reported. A moderator will review this response."}

\* the user closes the alert box
DismissAlert ==
    /\ scriptState = "running"
    /\ alertOpen # Null
    /\ alertOpen' = Null
    /\ UNCHANGED <<scriptState, storage, bootStorage, historyKind, history, location,
                   lastImage, geo, queryText, langSelect, sendBtn, loaderHidden,
                   responseAreaHidden, responseActionsHidden, responseMeta, responseText,
                   historyList, pending, timers, micActive, mailto, now>>

-----------------------------------------------------------------------------
(* The session *)

\* what the user types, and what the recogniser hears
QueryTexts == {<<>>, <<" ">>, KwRain}
Transcripts == {KwRain}

\* the query lifecycle: submission, response, reveal, and the inputs a query reads
Lifecycle(maxSubmits, texts) ==
    \/ SendBtnClick(maxSubmits)
    \/ QueryKeydown(maxSubmits)
    \/ \E k \in 1..Len(pending), throws \in BOOLEAN : handleQueryResume(k, throws)
    \/ \E k \in 1..Len(timers) : TypewriterTick(k)
    \/ \E t \in texts : TypeQuery(t)
    \/ \E f \in Files \cup {Undefined} : handleImageUpload(f)
    \/ GeoSuccess
    \/ GeoError
    \/ DismissAlert

\* the listeners around it: language, voice input, audio, escalation, feedback
Periphery ==
    \/ \E l \in Langs : SelectLang(l)
    \/ MicClick
    \/ \E sp \in Transcripts : RecognitionResult(sp)
    \/ RecognitionEnd
    \/ PlayAudio
    \/ Escalate
    \/ \E m \in FeedbackMessages : FeedbackAlert(m)

(* Spec: the query lifecycle from every value 'kr_history' may hold at load *)
Next == Lifecycle(MaxSubmits, QueryTexts)

Spec == Init /\ [][Next]_vars

(* SpecSession: every listener of the page, one submission, from a fresh   *)
(* profile or a full history                                               *)
InitSession ==
    InitControls /\ \E raw \in {[kind |-> "absent", items |-> <<>>], StoredArray(HistoryCap)} : Boot(raw)

NextSession == Lifecycle(MaxSessionSubmits, QueryTexts) \/ Periphery

SpecSession == InitSession /\ [][NextSession]_vars

(* SpecFair: the query lifecycle from a fresh profile or from a stored     *)
(* value that is no array, with the scheduling the browser guarantees: the *)
(* 1200 ms timer of the mocked fetch fires (or the failing backend call    *)
(* returns) and the awaiting handleQuery resumes                           *)
FreshStorage == [kind |-> "absent", items |-> <<>>]

Resumes == \E k \in 1..Len(pending), throws \in BOOLEAN : handleQueryResume(k, throws)

InitFair ==
    InitControls /\ \E raw \in {FreshStorage, [kind |-> "object", items |-> <<>>]} : Boot(raw)

NextFair == Lifecycle(MaxSubmits, {KwRain})

SpecFair == InitFair /\ [][NextFair]_vars /\ WF_vars(Resumes)

(* SpecFifo: a fresh profile, one query asked again and again, every fetch *)
(* answered by the mock                                                    *)
InitFifo == InitControls /\ Boot(FreshStorage)

NextFifo ==
    \/ TypeQuery(KwRain)
    \/ SendBtnClick(MaxFifoSubmits)
    \/ \E k \in 1..Len(pending) : handleQueryResume(k, FALSE)
    \/ \E k \in 1..Len(timers) : TypewriterTick(k)

SpecFifo == InitFifo /\ [][NextFifo]_vars

(* SpecRoute: a fresh profile with a query already typed, drawn from texts *)
(* that exercise every routing rule, alone and in combination              *)
RouteTexts ==
    { <<>>,
      KwPesticide, KwLeafSpot, KwLeaf, KwPrice, KwMarket, KwWeather, KwRain,
      <<"l","e","a","f","s","p","o","t">>,
      <<"R","A","I","N">>,
      <<"M","a","r","k","e","t">>,
      <<"h","i">>,
      KwPesticide \o <<" ">> \o KwRain,
      KwRain \o <<" ">> \o KwPesticide,
      KwWeather \o <<" ">> \o KwPrice,
      KwRain \o <<" ">> \o KwLeafSpot \o <<" ">> \o KwMarket }

InitRoute ==
    /\ Boot(FreshStorage)
    /\ queryText \in RouteTexts
    /\ langSelect = DefaultLang
    /\ sendBtn = [disabled |-> FALSE, textContent |-> AskNowLabel]
    /\ loaderHidden = TRUE
    /\ responseAreaHidden = TRUE
    /\ responseActionsHidden = TRUE
    /\ responseMeta = NoMeta
    /\ responseText = NoText
    /\ pending = <<>>
    /\ timers = <<>>
    /\ alertOpen = Null
    /\ micActive = FALSE
    /\ mailto = <<>>
    /\ now = 0

NextRoute ==
    \/ SendBtnClick(MaxSessionSubmits)
    \/ QueryKeydown(MaxSessionSubmits)
    \/ \E k \in 1..Len(pending), throws \in BOOLEAN : handleQueryResume(k, throws)
    \/ \E k \in 1..Len(timers) : TypewriterTick(k)
    \/ \E f \in Files \cup {Undefined} : handleImageUpload(f)
    \/ GeoSuccess
    \/ GeoError
    \/ DismissAlert

SpecRoute == InitRoute /\ [][NextRoute]_vars

(* SpecReveal: a fresh profile with a non-empty query already typed, so no *)
(* alert box ever blocks the page, with the scheduling the browser         *)
(* guarantees: an interval timer that is set keeps firing every 20 ms      *)
Ticks == \E k \in 1..Len(timers) : TypewriterTick(k)

InitReveal == InitRoute /\ queryText # <<>>

NextReveal ==
    \/ SendBtnClick(MaxSessionSubmits)
    \/ QueryKeydown(MaxSessionSubmits)
    \/ \E k \in 1..Len(pending), throws \in BOOLEAN : handleQueryResume(k, throws)
    \/ Ticks
    \/ GeoSuccess
    \/ GeoError

SpecReveal == InitReveal /\ [][NextReveal]_vars /\ WF_vars(Ticks)

(* SpecEdit: a fresh profile, one submission, and everything that can edit *)
(* the inputs of a query while its fetch is pending: typing, the voice     *)
(* transcript, the language selector, the file input                       *)
EditTexts == {<<>>, KwRain}

NextEdit ==
    \/ Lifecycle(MaxSessionSubmits, EditTexts)
    \/ \E l \in Langs : SelectLang(l)
    \/ MicClick
    \/ \E sp \in Transcripts : RecognitionResult(sp)
    \/ RecognitionEnd

SpecEdit == InitFifo /\ [][NextEdit]_vars

(* SpecEscalate: one submission and the escalate button, from a fresh      *)
(* profile or from a stored value that is no array                         *)
NextEscalate == Lifecycle(MaxSessionSubmits, {KwRain}) \/ Escalate

SpecEscalate == InitFair /\ [][NextEscalate]_vars

(* SpecRender: queries that carry the characters escapeHtml replaces, from *)
(* a fresh profile or from a stored record that carries them in its query  *)
(* and in its answer                                                       *)
ScriptTag == <<"<","s","c","r","i","p","t",">">>

RenderTexts ==
    { <<>>, ScriptTag, <<"a","&","b">>, <<"\"","'">>, <<"&","l","t",";">> }

MarkupRecord == <<ScriptTag, DefaultLang, 0, <<"<","b",">","I","t","'","s","&","\"">> >>

InitRender ==
    InitControls
    /\ \E raw \in {FreshStorage, [kind |-> "array", items |-> <<MarkupRecord>>]} : Boot(raw)

NextRender == Lifecycle(MaxSessionSubmits, RenderTexts)

SpecRender == InitRender /\ [][NextRender]_vars

-----------------------------------------------------------------------------
(* Properties *)

NoImage == ~Truthy(lastImage)
EmptyInput == trim(queryText) = <<>> /\ NoImage
\* a step in which a suspended handleQuery resumed: the fetch delay elapsed
Resumed == now' # now
\* a step in which handleQuery was accepted and called the fetcher
Fetched == Len(pending') > Len(pending)
HasPrefix(a) == Len(a) >= Len(LocationPrefix) /\ SubSeq(a, 1, Len(LocationPrefix)) = LocationPrefix
Last(s) == s[Len(s)]

\* C1: a submit made with an empty trimmed query and no image never calls the
\* fetcher, and the handleQuery that rejects it shows the alert and changes
\* nothing else: history, the persisted value, the pending fetches and the
\* submit control stay as they were.
C1_EmptySubmitRejected ==
    /\ [][EmptyInput => ~Fetched]_vars
    /\ [][(alertOpen = Null /\ alertOpen' = EmptyQueryAlert) =>
            /\ EmptyInput
            /\ UNCHANGED <<scriptState, storage, bootStorage, historyKind, history,
                           location, lastImage, geo, queryText, langSelect, sendBtn,
                           loaderHidden, responseAreaHidden, responseActionsHidden,
                           responseMeta, responseText, historyList, pending, timers,
                           micActive, mailto, now>>]_vars

\* C1 witness: a whitespace-only query with no image was submitted and rejected
C1_Witness ==
    /\ alertOpen = EmptyQueryAlert
    /\ queryText # <<>>
    /\ EmptyInput
    /\ ~sendBtn.disabled
    /\ pending = <<>>

\* C2: a resumed handleQuery appends exactly one record when the response is
\* not an error and leaves history and storage alone when it is; no other step
\* changes history or storage.
C2_HistoryChangesOnlyOnSuccess ==
    [][IF Resumed /\ responseMeta'.label # ErrorLabel
       THEN /\ history' # <<>>
            /\ Last(history').ts = now'
            /\ \/ SubSeq(history', 1, Len(history') - 1) = history
               \/ history # <<>> /\ SubSeq(history', 1, Len(history') - 1) = Tail(history)
       ELSE history' = history /\ storage' = storage]_vars

\* C3: from absent storage or a persisted history of at most 10 records the
\* history never holds more than 10 records.
C3_HistoryBounded ==
    (bootStorage.kind = "absent"
        \/ (bootStorage.kind = "array" /\ Len(bootStorage.items) <= HistoryCap))
    => Len(history) <= HistoryCap

\* C3 witness: a session that started with 10 records has recorded two more
C3_Witness ==
    /\ bootStorage.kind = "array"
    /\ Len(bootStorage.items) = HistoryCap
    /\ Len(history) = HistoryCap
    /\ Last(history).ts = 2
    /\ history[HistoryCap - 1].ts = 1

\* C4: from an empty history, after k successful submissions the history is the
\* last min(k, 10) records in submission order (the k-th submission is stamped k).
C4_FifoOrder ==
    /\ Len(history) = (IF now < HistoryCap THEN now ELSE HistoryCap)
    /\ \A n \in 1..Len(history) : history[n].ts = now - Len(history) + n

\* C4 witness: after 11 submissions records 2..11 are present and record 1 is gone
C4_Witness ==
    /\ now = HistoryCap + 1
    /\ Len(history) = HistoryCap
    /\ history[1].ts = 2
    /\ Last(history).ts = HistoryCap + 1

\* C5: once a successful response has been recorded the history holds at most 10
\* records, whatever it held before (also when more than 10 were loaded).
C5_EvictsDownToCap ==
    (history # <<>> /\ Last(history).ts >= 1) => Len(history) <= HistoryCap

\* C6: at most one fetch is pending, the submit control is disabled while it
\* is, and no step taken while the control is disabled runs handleQuery (no
\* new fetch, no alert).
C6_NoReentrancy ==
    /\ [](Len(pending) <= 1 /\ (pending # <<>> <=> sendBtn.disabled))
    /\ [][sendBtn.disabled => (~Fetched /\ alertOpen' = alertOpen)]_vars

\* C6 witness: a fetch is pending while the query box holds a submittable query
C6_Witness ==
    /\ Len(pending) = 1
    /\ sendBtn.disabled
    /\ ~EmptyInput
    /\ now + Len(pending) < MaxSubmits

\* C7: every accepted submission leaves the Submitting state: the control is
\* enabled again and the loader hidden.
C7_SubmittingEnds ==
    (sendBtn.disabled \/ ~loaderHidden) ~> (~sendBtn.disabled /\ loaderHidden /\ pending = <<>>)

\* C7 witness: a fetch failed, the apology is being revealed, the control is enabled
C7_Witness ==
    /\ now >= 1
    /\ responseMeta.label = ErrorLabel
    /\ ~sendBtn.disabled
    /\ loaderHidden
    /\ timers # <<>>
    /\ Last(timers).text = ApologyText

\* C8: when 'kr_history' is absent or corrupt the script starts with an empty
\* history: it runs to its end, context.history is an empty array and the
\* placeholder is rendered.
C8_CorruptStorageLoadsEmpty ==
    (bootStorage.kind # "array" /\ now = 0) =>
        /\ scriptState = "running"
        /\ historyKind = "array"
        /\ history = <<>>
        /\ historyList.kind = "placeholder"
        /\ geo # "none"

\* C9: the fetcher is given the location as it is when the submission is made;
\* the mocked answer it resolves with carries the location disclaimer exactly
\* when that location was set, whichever rule produced it and whatever the
\* geolocation callback did meanwhile; the location is set at most once.
C9_LocationPrefix ==
    /\ [][Fetched => Last(pending').ctx.location = location]_vars
    /\ [][(Resumed /\ responseMeta'.label # ErrorLabel /\ Len(pending) = 1) =>
            (HasPrefix(Last(timers').text) <=> Truthy(pending[1].ctx.location))]_vars
    /\ [][location' # location => (~Truthy(location) /\ geo = "pending" /\ geo' = "done")]_vars

\* C9 witness: the position arrived while a fetch made without it is pending
C9_Witness ==
    /\ Len(pending) = 1
    /\ ~Truthy(pending[1].ctx.location)
    /\ Truthy(location)
    /\ geo = "done"

\* the rule list of the reference fetcher, in order
RoutingRules ==
    << [keywords |-> {KwPesticide, KwLeafSpot}, answer |-> LeafSpotText],
       [keywords |-> {KwPrice, KwMarket},       answer |-> MarketText],
       [keywords |-> {KwWeather, KwRain},       answer |-> WeatherText] >>

Matches(rule, q) == \E kw \in rule.keywords : includes(toLowerCase(q), kw)

\* the answer of the first rule that matches, the prompt for an empty query
FirstMatch(q) ==
    IF q = <<>> THEN PromptText
    ELSE IF \E r \in 1..Len(RoutingRules) : Matches(RoutingRules[r], q)
         THEN RoutingRules[CHOOSE r \in 1..Len(RoutingRules) :
                              /\ Matches(RoutingRules[r], q)
                              /\ \A e \in 1..(r - 1) : ~Matches(RoutingRules[e], q)].answer
         ELSE NotSureText

\* C10: every record saved in this session pairs its query with the answer of
\* the first matching rule (case-insensitively), with or without the location
\* disclaimer; the fetcher is never shown an image.
C10_FirstMatchWins ==
    /\ \A n \in 1..Len(history) :
          history[n].answer \in {FirstMatch(history[n].q), LocationPrefix \o FirstMatch(history[n].q)}
    /\ \A n \in 1..Len(pending) : ~Truthy(pending[n].ctx.lastImage)

\* C10 witness: a query containing both 'rain' and 'pesticide' was answered by
\* the earlier rule
C10_Witness ==
    /\ history # <<>>
    /\ includes(Last(history).q, KwRain)
    /\ includes(Last(history).q, KwPesticide)
    /\ Last(history).answer \in {LeafSpotText, LocationPrefix \o LeafSpotText}

\* the reveal of the first answer of the session is the only one, and nothing
\* has been submitted since it started
SoloReveal == Len(timers) = 1 /\ now = 1 /\ pending = <<>>

\* C11: a reveal with no other reveal running shows the cursor alone at first
\* and then the first i characters followed by the cursor, i counting its
\* ticks; each tick lengthens the shown prefix by exactly one character until
\* the whole answer is shown, the tick after that clears the timer and leaves
\* the full answer without cursor; and every timer that is set is cleared.
C11_RevealGrowsAndEnds ==
    /\ [](SoloReveal =>
             /\ timers[1].i <= Len(timers[1].text)
             /\ responseText = [text |-> SubSeq(timers[1].text, 1, timers[1].i),
                                cursor |-> TRUE])
    /\ [][SoloReveal /\ pending' = <<>> /\ responseText' # responseText =>
             IF timers' # <<>>
             THEN /\ Len(responseText'.text) = Len(responseText.text) + 1
                  /\ responseText'.cursor
                  /\ timers'[1].i = timers[1].i + 1
             ELSE /\ timers[1].i = Len(timers[1].text)
                  /\ responseText' = [text |-> timers[1].text, cursor |-> FALSE]]_vars
    /\ (timers # <<>>) ~> (timers = <<>>)

\* C11 witness: the only reveal of the session ran to its end, the whole
\* answer is shown without cursor
C11_Witness ==
    /\ now = 1
    /\ pending = <<>>
    /\ timers = <<>>
    /\ responseText \in {[text |-> WeatherText, cursor |-> FALSE],
                         [text |-> LocationPrefix \o LeafSpotText, cursor |-> FALSE]}

\* the five characters escapeHtml replaces, each with its entity
Entities ==
    { <<"&", <<"&","a","m","p",";">> >>, <<"<", <<"&","l","t",";">> >>,
      <<">", <<"&","g","t",";">> >>,     <<"\"", <<"&","q","u","o","t",";">> >>,
      <<"'", <<"&","#","3","9",";">> >> }

StartsWith(m, k, e) == k + Len(e) - 1 <= Len(m) /\ SubSeq(m, k, k + Len(e) - 1) = e

\* markup in which none of the five characters stands for itself
Escaped(m) ==
    \A k \in 1..Len(m) :
        /\ m[k] \notin {"<", ">", "\"", "'"}
        /\ m[k] = "&" => \E e \in Entities : StartsWith(m, k, e[2])

\* the text a browser shows for escaped markup
RECURSIVE Shown(_)
Shown(m) ==
    IF m = <<>> THEN <<>>
    ELSE IF \E e \in Entities : StartsWith(m, 1, e[2])
         THEN LET e == CHOOSE e \in Entities : StartsWith(m, 1, e[2])
              IN  <<e[1]>> \o Shown(SubSeq(m, Len(e[2]) + 1, Len(m)))
         ELSE <<Head(m)>> \o Shown(Tail(m))

\* C12: in every rendered history item the query, the timestamp and the answer
\* carry none of & < > " ' unescaped, the query and the answer read back as
\* the record's own text, and a record with an empty query is shown as
\* 'Image Query'.
C12_HistoryItemsEscaped ==
    \A k \in 1..Len(historyList.items) :
        LET item == historyList.items[k]
            rec  == history[Len(history) + 1 - k]
        IN  /\ Escaped(item.q) /\ Escaped(item.ts) /\ Escaped(item.a)
            /\ Shown(item.a) = rec.answer
            /\ IF rec.q = <<>> THEN item.q = ImageQueryText ELSE Shown(item.q) = rec.q

\* C12 witness: the list shows an image query of this session above a stored
\* record whose '<script>' query is rendered as entities
C12_Witness ==
    /\ Len(historyList.items) = 2
    /\ history[2].q = <<>>
    /\ historyList.items[1].q = ImageQueryText
    /\ history[1].q = ScriptTag
    /\ historyList.items[2].q = <<"&","l","t",";">> \o SubSeq(ScriptTag, 2, 7) \o <<"&","g","t",";">>

\* C13: whenever no handler is running the rendered history list is the
\* 'No recent queries.' placeholder if the history is empty, and otherwise
\* one item per record, newest first.
C13_ListMirrorsHistory ==
    historyList =
        IF history = <<>>
        THEN [kind |-> "placeholder", items |-> <<>>]
        ELSE [kind  |-> "list",
              items |-> [k \in 1..Len(history) |-> HistoryItemHtml(history[Len(history) + 1 - k])]]

\* C14: once every reveal timer has finished and no fetch is pending, the
\* response area shows the answer of the most recent submission (the apology
\* after an error response, the answer of the newest record otherwise) without
\* cursor; and while a fetch is pending the response text handleQuery cleared
\* stays as it is.
C14_LatestAnswerShown ==
    /\ [](now >= 1 /\ pending = <<>> /\ timers = <<>> /\ historyKind = "array" =>
             responseText =
                 [text   |-> IF responseMeta.label = ErrorLabel
                             THEN ApologyText ELSE Last(history).answer,
                  cursor |-> FALSE])
    /\ [][pending # <<>> /\ pending' = pending => responseText' = responseText]_vars

\* the stored value parses, and parses to the history in memory
StorageParsesToHistory ==
    LET parsed == JSONparse(storage)
    IN  ~parsed.threw /\ parsed.kind = historyKind /\ parsed.value = history

\* a step that writes 'kr_history' is the end of a successful submission and
\* writes the whole history as that step leaves it, the list rendered from the same
WrittenOnlyOnSuccess ==
    storage' # storage =>
        /\ Resumed
        /\ responseMeta'.label # ErrorLabel
        /\ history' # history
        /\ storage' = JSONstringify(history')
        /\ historyList' = renderHistory(historyKind, history').html

C16_RecordIsOfSubmitTime ==
    [][/\ Fetched =>
            /\ Last(pending').text = trim(queryText)
            /\ Last(pending').lang = langSelect
       /\ ~Fetched /\ ~Resumed => pending' = pending
       /\ Resumed /\ history' # history =>
            \E k \in 1..Len(pending) :
                /\ pending' = RemoveAt(pending, k)
                /\ Last(history').q = pending[k].text
                /\ Last(history').lang = pending[k].lang
                /\ Last(history').answer = Last(timers').text
                /\ Last(history').answer =
                       mockAnswer(pending[k].text, pending[k].lang, pending[k].ctx)]_vars

\* C16 witness: an image query in the default language was saved although a
\* transcript now fills the query box and another language is selected
C16_Witness ==
    /\ now = 1
    /\ history # <<>>
    /\ Last(history).ts = 1
    /\ Last(history).q = <<>>
    /\ Last(history).lang = DefaultLang
    /\ queryText = KwRain
    /\ langSelect # DefaultLang
    /\ micActive

\* C17: a submission made with an image selected is not answered with the
\* 'Please type a question' prompt when its query is empty, and is answered
\* with the Leaf spot text when its query contains 'leaf'.
C17_ImageReachesFetcher ==
    [][Resumed /\ responseMeta'.label # ErrorLabel =>
          \A k \in 1..Len(pending) :
              pending' = RemoveAt(pending, k) /\ Truthy(pending[k].imageFile) =>
                  /\ pending[k].text = <<>> =>
                         Last(timers').text \notin {PromptText, LocationPrefix \o PromptText}
                  /\ includes(toLowerCase(pending[k].text), KwLeaf) =>
                         Last(timers').text \in {LeafSpotText, LocationPrefix \o LeafSpotText}]_vars

\* C18: the body composed by the escalate button carries the query and answer
\* of the most recent submission shown: before any response of this session
\* the newest loaded record (the text of the query box and '(none)' if there
\* is none), after an error response the apology shown, after a successful
\* response the query box's submission and the answer revealed for it.
C18_EscalatesLatestSubmission ==
    [][Escalate /\ pending = <<>> =>
          /\ mailto' # <<>>
          /\ LET body == mailto'[1]
             IN  IF now = 0
                 THEN body = IF history = <<>>
                             THEN [q |-> queryText, answer |-> NoneText]
                             ELSE [q |-> Last(history).q, answer |-> Last(history).answer]
                 ELSE IF responseMeta.label = ErrorLabel
                      THEN body.answer = ApologyText
                      ELSE body.answer \in {FirstMatch(body.q), LocationPrefix \o FirstMatch(body.q)}
                           /\ body.answer # NoneText]_vars

=============================================================================
